---- MODULE Spec2Model ----
(***************************************************************************)
(* Model of the Legato backend (src/backend/main.py): the /synthesize      *)
(* handler, the sound-bank lookup, the two external tool invocations and   *)
(* the temp files that flow between them.                                  *)
(*                                                                         *)
(* One step of the model is one statement group of the handler.  The       *)
(* external tools (abc2midi, fluidsynth) are opaque processes: every exit  *)
(* status, every output on the two streams, a timeout, a missing binary    *)
(* and every effect on the declared output file is possible.  The temp     *)
(* filesystem may fail any creation, write or unlink, at most MaxFaults    *)
(* times in a run.                                                         *)
(***************************************************************************)
EXTENDS Integers, Sequences, FiniteSets, TLC

----------------------------------------------------------------------------
(* Bounds *)

\* number of request slots (invocations that can be alive at the same time)
NumReq == 2
\* longest notation text a client submits
MaxAbcLen == 1
\* temp-file names available on storage (one invocation needs three)
MaxPaths == 4
\* operations of the temp filesystem that fail in one run
MaxFaults == 1

Reqs == 1..NumReq
Paths == 1..MaxPaths

\* Python's None for a path variable / for find_soundfont's result
None == 0

----------------------------------------------------------------------------
(* Inputs *)

\* characters of a notation text: one whitespace character, one other
Alphabet == {" ", "X"}
AbcInputs == UNION {[1..n -> Alphabet] : n \in 0..MaxAbcLen}
\* SynthesizeRequest.format is an unvalidated str; the spec names two values
Formats == {"wav", "mp3"}

IsSpace(c) == c = " "

\* str.strip(): drop leading and trailing whitespace
RECURSIVE LStrip(_)
LStrip(s) == IF s # <<>> /\ IsSpace(Head(s)) THEN LStrip(Tail(s)) ELSE s
RECURSIVE RStrip(_)
RStrip(s) ==
    IF s # <<>> /\ IsSpace(s[Len(s)]) THEN RStrip(SubSeq(s, 1, Len(s) - 1)) ELSE s
Strip(s) == RStrip(LStrip(s))

----------------------------------------------------------------------------
(* The sound-bank directory *)

\* SOUNDFONT_DIR as a lookup finds it: missing, present without any *.sf2
\* file, holding a .sf2 file.  The directory belongs to the operator and is
\* read afresh by every lookup, so each lookup may find it in any state.
BankStates == {"nodir", "nosf2", "sf2"}

\* faulty variant: the first glob entry is taken without asking whether there is one
find_soundfont_Unchecked(dir) == IF dir = "nodir" THEN None ELSE 1

\* find_soundfont(): None unless the directory exists and the glob matches
find_soundfont(dir) ==
    IF dir = "nodir" THEN None
    ELSE IF dir = "sf2" THEN 1
    ELSE None

----------------------------------------------------------------------------
(* Details and media types, as the code writes them *)

NoSoundFontDetail == "No SoundFont (.sf2) found in SOUNDFONT_DIR"
EmptyAbcDetail == "ABC notation is empty"
FluidSynthFailedDetail == "FluidSynth synthesis failed"
Abc2midiTimeoutDetail == "Command abc2midi timed out after 10 seconds"
Abc2midiMissingDetail == "[Errno 2] No such file or directory: abc2midi"
UnlinkErrorDetail == "[Errno 13] Permission denied"
GetsizeErrorDetail == "[Errno 2] No such file or directory"

\* faulty variant: stdout is taken first, stderr only when stdout is empty
Abc2midiDetail_StdoutFirst(stderr, stdout) == IF stdout # "" THEN stdout ELSE stderr

\* detail = result.stderr if result.stderr else result.stdout
Abc2midiDetail(stderr, stdout) == IF stderr # "" THEN stderr ELSE stdout
Abc2midiFailed(stderr, stdout) == "abc2midi failed: " \o Abc2midiDetail(stderr, stdout)

\* FileResponse(audio_path, media_type="audio/wav", ...): the request's format
\* is not consulted
ResponseMediaType(format) == "audio/wav"
\* NamedTemporaryFile(suffix=".wav"): likewise
AudioSuffix(format) == ".wav"

----------------------------------------------------------------------------
(* State *)

VARIABLES
    faults,     \* how many more operations of the temp filesystem may fail
    fs,         \* temp storage: path -> [suffix, size] for the files that exist
    loop,       \* the request whose handler holds the event loop, 0 if none
    pc,         \* per request: position in synthesize
    req,        \* per request: the SynthesizeRequest
    loc,        \* per request: the handler's local variables
    hist,       \* per request: what this invocation has done so far
    sending,    \* per request: the file a returned FileResponse refers to
    last,       \* the outcome most recently reported to a caller
    timeoutDetail   \* history: the detail last reported for a fluidsynth timeout

vars == <<faults, fs, loop, pc, req, loc, hist, sending, last, timeoutDetail>>

NoReq == [abc |-> <<>>, format |-> "none"]
NoLocals ==
    [soundfont |-> None, abc_content |-> <<>>, abc_path |-> None,
     midi_path |-> None, audio_path |-> None, e |-> ""]
NoHist ==
    [created |-> {}, abc2midi |-> 0, fluidsynth |-> 0, proc1 |-> "none",
     midi1 |-> "none", proc2 |-> "none", wav2 |-> "none", bank_seen |-> "none",
     stderr1 |-> "", stdout1 |-> "", stderr2 |-> "",
     unlink_failed |-> None, bank_used |-> "none",
     reports |-> 0]
NoOutcome ==
    [kind |-> "none", status |-> 0, detail |-> "", media_type |-> "",
     filename |-> "", path |-> None]
NoReport == [r |-> 0, req |-> NoReq, out |-> NoOutcome, hist |-> NoHist]

\* raise HTTPException(status_code=..., detail=...)
HTTPError(status, detail) ==
    [kind |-> "http", status |-> status, detail |-> detail, media_type |-> "",
     filename |-> "", path |-> None]
\* an exception other than HTTPException that leaves synthesize
Unhandled(detail) ==
    [kind |-> "exception", status |-> 500, detail |-> detail, media_type |-> "",
     filename |-> "", path |-> None]
\* return FileResponse(audio_path, media_type=..., filename=...)
FileResponse(path, media_type) ==
    [kind |-> "response", status |-> 200, detail |-> "", media_type |-> media_type,
     filename |-> "legato_output.wav", path |-> path]

Exists(files, p) == p \in DOMAIN files
\* os.path.getsize of an existing file
GetSize(files, p) == files[p].size

\* state of a file as a stage leaves it
FileState(files, p) ==
    IF ~Exists(files, p) THEN "missing"
    ELSE IF GetSize(files, p) = 0 THEN "empty" ELSE "data"

\* the file system after creating, rewriting or removing one file
WithFile(files, p, suffix, size) ==
    [q \in DOMAIN files \cup {p} |->
        IF q = p THEN [suffix |-> suffix, size |-> size] ELSE files[q]]
Without(files, p) == [q \in DOMAIN files \ {p} |-> files[q]]

\* faulty variant: the name is numbered by how many temp files there are and
\* is not checked against the names in use
FreshPath_Counted(files) == (Cardinality(DOMAIN files) % 3) + 1

\* tempfile.NamedTemporaryFile: a name that no existing file has.  Names carry
\* no meaning beyond their identity, so the first unused one stands for any.
FreshPath(files) ==
    CHOOSE p \in Paths \ DOMAIN files : \A q \in Paths \ DOMAIN files : p <= q

\* what the temp filesystem can do with one operation
FsOutcomes == IF faults > 0 THEN {"ok", "fails"} ELSE {"ok"}
\* the faults left after operations with these outcomes
FaultsAfter(outcomes) == faults - Cardinality({i \in DOMAIN outcomes : outcomes[i] = "fails"})

InitWith(f) ==
    /\ faults = f
    /\ fs = <<>>
    /\ loop = 0
    /\ pc = [r \in Reqs |-> "idle"]
    /\ req = [r \in Reqs |-> NoReq]
    /\ loc = [r \in Reqs |-> NoLocals]
    /\ hist = [r \in Reqs |-> NoHist]
    /\ sending = [r \in Reqs |-> None]
    /\ last = NoReport
    /\ timeoutDetail = ""

Init == InitWith(MaxFaults)
\* the same program on a temp filesystem whose operations all succeed
InitNoFault == InitWith(0)

----------------------------------------------------------------------------
(* Leaving the handler *)

\* The handler of r ends with outcome o after having done h: the outcome is
\* reported to the caller, the locals go out of scope and the event loop is
\* free again.  A FileResponse is sent later, by the framework.
Return(r, o, h) ==
    /\ last' = [r |-> r, req |-> req[r], out |-> o,
                hist |-> [h EXCEPT !.reports = @ + 1]]
    /\ pc' = [pc EXCEPT ![r] = IF o.kind = "response" THEN "responding" ELSE "idle"]
    /\ sending' = [sending EXCEPT ![r] = o.path]
    /\ loop' = 0
    /\ req' = [req EXCEPT ![r] = NoReq]
    /\ loc' = [loc EXCEPT ![r] = NoLocals]
    /\ hist' = [hist EXCEPT ![r] = NoHist]
    /\ timeoutDetail' =
          IF o.kind = "http" /\ h.proc2 = "timeout" THEN o.detail ELSE timeoutDetail

\* faulty variant: a failed attempt is caught and the conversion is started again
Catch_Retry(r, e, h) ==
    /\ pc' = [pc EXCEPT ![r] = "abc2midi"]
    /\ loc' = [loc EXCEPT ![r].e = e]
    /\ hist' = [hist EXCEPT ![r] = h]
    /\ UNCHANGED <<loop, req, sending, last, timeoutDetail>>

\* faulty variant: a failure is swallowed and the conversion is tried again
\* as long as it fails
Catch_Again(r, e, h) ==
    /\ pc' = [pc EXCEPT ![r] = "abc2midi"]
    /\ UNCHANGED <<loop, req, loc, hist, sending, last, timeoutDetail>>

\* except Exception as e: the handler catches e and starts its cleanup
Catch(r, e, h) ==
    /\ pc' = [pc EXCEPT ![r] = "clean_abc"]
    /\ loc' = [loc EXCEPT ![r].e = e]
    /\ hist' = [hist EXCEPT ![r] = h]
    /\ UNCHANGED <<loop, req, sending, last, timeoutDetail>>

\* the handler goes on to its next statement
Goto(r, next) == pc' = [pc EXCEPT ![r] = next]

----------------------------------------------------------------------------
(* synthesize, lines 112-137: checks and temp files *)

\* faulty variant: a handler is started while another one is running, as if
\* the running handler gave up the event loop while it waits for its tool
Start_WhileRunning(r) ==
    /\ pc[r] = "idle"
    /\ \A q \in Reqs : q < r => pc[q] # "idle"
    /\ MaxPaths - Cardinality(DOMAIN fs) >= 3
    /\ \E abc \in AbcInputs, format \in Formats :
          req' = [req EXCEPT ![r] = [abc |-> abc, format |-> format]]
    /\ loop' = r
    /\ Goto(r, "locate")
    /\ last' = NoReport
    /\ UNCHANGED <<faults, fs, loc, hist, sending, timeoutDetail>>

\* a request arrives and its handler is scheduled on the event loop.  The
\* numbers in Reqs only tell invocations apart, so a new one takes the first
\* number that is free.
Start(r) ==
    /\ loop = 0
    /\ pc[r] = "idle"
    /\ \A q \in Reqs : q < r => pc[q] # "idle"
    /\ MaxPaths - Cardinality(DOMAIN fs) >= 3
    /\ \E abc \in AbcInputs, format \in Formats :
          req' = [req EXCEPT ![r] = [abc |-> abc, format |-> format]]
    /\ loop' = r
    /\ Goto(r, "locate")
    /\ last' = NoReport
    /\ UNCHANGED <<faults, fs, loc, hist, sending, timeoutDetail>>

\* soundfont = find_soundfont(); if soundfont is None: raise HTTPException(500)
\* (dir: the state of SOUNDFONT_DIR at this lookup)
Locate(r) ==
    /\ loop = r
    /\ pc[r] = "locate"
    /\ \E dir \in BankStates :
          LET sf == find_soundfont(dir)
              h == [hist[r] EXCEPT !.bank_seen = dir]
          IN  IF sf = None
              THEN Return(r, HTTPError(500, NoSoundFontDetail), h)
              ELSE /\ loc' = [loc EXCEPT ![r].soundfont = sf]
                   /\ hist' = [hist EXCEPT ![r] = h]
                   /\ Goto(r, "strip")
                   /\ UNCHANGED <<loop, req, sending, last, timeoutDetail>>
    /\ UNCHANGED <<faults, fs>>

\* abc_content = request.abc.strip(); if not abc_content: raise HTTPException(400)
CheckInput(r) ==
    /\ loop = r
    /\ pc[r] = "strip"
    /\ LET content == Strip(req[r].abc)
       IN  IF content = <<>>
           THEN Return(r, HTTPError(400, EmptyAbcDetail), hist[r])
           ELSE /\ loc' = [loc EXCEPT ![r].abc_content = content]
                /\ Goto(r, "mk_abc")
                /\ UNCHANGED <<loop, req, hist, sending, last, timeoutDetail>>
    /\ UNCHANGED <<faults, fs>>

\* with NamedTemporaryFile(suffix=".abc", delete=False, mode="w"): write, keep
\* the name.  The file can fail to open (nothing is created) or to take the
\* text (the file stays, empty); either error leaves synthesize as it is.
CreateAbc(r) ==
    /\ loop = r
    /\ pc[r] = "mk_abc"
    /\ \E p \in {FreshPath(fs)}, open \in FsOutcomes, write \in FsOutcomes :
          LET h == [hist[r] EXCEPT !.created = @ \cup {p}]
          IN  /\ faults' = FaultsAfter(<<open, write>>)
              /\ IF open = "fails"
                 THEN /\ write = "ok"
                      /\ Return(r, Unhandled("OSError"), hist[r])
                      /\ fs' = fs
                 ELSE IF write = "fails"
                 THEN /\ fs' = WithFile(fs, p, ".abc", 0)
                      /\ Return(r, Unhandled("OSError"), h)
                 ELSE /\ fs' = WithFile(fs, p, ".abc", Len(loc[r].abc_content))
                      /\ loc' = [loc EXCEPT ![r].abc_path = p]
                      /\ hist' = [hist EXCEPT ![r] = h]
                      /\ Goto(r, "mk_mid")
                      /\ UNCHANGED <<loop, req, sending, last, timeoutDetail>>

\* with NamedTemporaryFile(suffix=".mid", delete=False): keep the name
CreateMidi(r) ==
    /\ loop = r
    /\ pc[r] = "mk_mid"
    /\ \E p \in {FreshPath(fs)}, open \in FsOutcomes :
          /\ faults' = FaultsAfter(<<open>>)
          /\ IF open = "fails"
             THEN /\ Return(r, Unhandled("OSError"), hist[r])
                  /\ fs' = fs
             ELSE /\ fs' = WithFile(fs, p, ".mid", 0)
                  /\ loc' = [loc EXCEPT ![r].midi_path = p]
                  /\ hist' = [hist EXCEPT ![r].created = @ \cup {p}]
                  /\ Goto(r, "mk_wav")
                  /\ UNCHANGED <<loop, req, sending, last, timeoutDetail>>

\* with NamedTemporaryFile(suffix=".wav", delete=False): keep the name
CreateAudio(r) ==
    /\ loop = r
    /\ pc[r] = "mk_wav"
    /\ \E p \in {FreshPath(fs)}, open \in FsOutcomes :
          /\ faults' = FaultsAfter(<<open>>)
          /\ IF open = "fails"
             THEN /\ Return(r, Unhandled("OSError"), hist[r])
                  /\ fs' = fs
             ELSE /\ fs' = WithFile(fs, p, AudioSuffix(req[r].format), 0)
                  /\ loc' = [loc EXCEPT ![r].audio_path = p]
                  /\ hist' = [hist EXCEPT ![r].created = @ \cup {p}]
                  /\ Goto(r, "abc2midi")
                  /\ UNCHANGED <<loop, req, sending, last, timeoutDetail>>

----------------------------------------------------------------------------
(* The external tools *)

\* what a tool run does to its declared output file: leaves it as it was
\* created (zero bytes), writes data to it, or removes it
OutputEffects == {"keep", "write", "remove"}

ToolRun(kind, rc, stderr, stdout, output) ==
    [kind |-> kind, rc |-> rc, stderr |-> stderr, stdout |-> stdout,
     output |-> output]

\* subprocess.run(..., capture_output=True, text=True, timeout=...): the
\* process exits with a status and two captured streams, or is killed at the
\* timeout (TimeoutExpired), or cannot be started (OSError)
ToolRuns(errText, outText) ==
    {ToolRun("exit", rc, e, o, f) :
        rc \in {0, 1}, e \in {"", errText}, o \in {"", outText}, f \in OutputEffects}
    \cup {ToolRun("timeout", -1, "", "", f) : f \in OutputEffects}
    \cup {ToolRun("oserror", -1, "", "", "keep")}

Abc2midiRuns == ToolRuns("abc2midi: error", "Error in abc file")
FluidsynthRuns == ToolRuns("fluidsynth: error", "FluidSynth runtime")

ProcTag(run) ==
    IF run.kind = "exit" THEN (IF run.rc = 0 THEN "exit0" ELSE "exitN") ELSE run.kind

\* result.stderr, result.stdout: the captured streams are looked at only
\* after a non-zero exit (abc2midi: both, lines 146-148; fluidsynth: stderr,
\* lines 74-75); the history keeps the text that is read and nothing for the
\* text that never is
StreamRead(run, text) ==
    IF run.kind = "exit" /\ run.rc # 0 THEN text ELSE ""

AfterRun(files, p, suffix, run) ==
    CASE run.output = "keep" -> files
      [] run.output = "write" -> WithFile(files, p, suffix, 1)
      [] run.output = "remove" -> Without(files, p)

\* str(e) of the exception subprocess.run raises for abc2midi
Abc2midiException(run) ==
    IF run.kind = "timeout" THEN Abc2midiTimeoutDetail ELSE Abc2midiMissingDetail

\* faulty variant: the exit status alone decides, the output file is not looked at
fluidsynth_midi_to_wav_NoFileCheck(run, files, wav_path) ==
    run.kind = "exit" /\ run.rc = 0

\* faulty variant: the test of the exit status is inverted
fluidsynth_midi_to_wav_Inverted(run, files, wav_path) ==
    IF run.kind # "exit" THEN FALSE
    ELSE IF run.rc = 0 THEN FALSE
    ELSE Exists(files, wav_path) /\ GetSize(files, wav_path) > 0

\* fluidsynth_midi_to_wav, lines 66-82: False on a non-zero exit, on a timeout
\* and on any other exception; otherwise whether the wav exists with size > 0
fluidsynth_midi_to_wav(run, files, wav_path) ==
    IF run.kind # "exit" THEN FALSE
    ELSE IF run.rc # 0 THEN FALSE
    ELSE Exists(files, wav_path) /\ GetSize(files, wav_path) > 0

----------------------------------------------------------------------------
(* synthesize, lines 139-171: the two stages and the success path *)

\* result = subprocess.run(["abc2midi", abc_path, "-o", midi_path], timeout=10)
\* if result.returncode != 0: raise Exception(f"abc2midi failed: {detail}")
RunAbc2midi(r) ==
    /\ loop = r
    /\ pc[r] = "abc2midi"
    /\ \E run \in Abc2midiRuns :
          LET files == AfterRun(fs, loc[r].midi_path, ".mid", run)
              h == [hist[r] EXCEPT !.abc2midi = @ + 1, !.proc1 = ProcTag(run),
                                   !.midi1 = FileState(files, loc[r].midi_path),
                                   !.stderr1 = StreamRead(run, run.stderr),
                                   !.stdout1 = StreamRead(run, run.stdout)]
          IN  /\ fs' = files
              /\ IF run.kind # "exit"
                 THEN Catch(r, Abc2midiException(run), h)
                 ELSE IF run.rc # 0
                 THEN Catch(r, Abc2midiFailed(run.stderr, run.stdout), h)
                 ELSE /\ hist' = [hist EXCEPT ![r] = h]
                      /\ Goto(r, "fluidsynth")
                      /\ UNCHANGED <<loop, req, loc, sending, last, timeoutDetail>>
    /\ UNCHANGED faults

\* whether the .sf2 file is there when its path is used
BankAtUse(dir) == IF find_soundfont(dir) # None THEN "present" ELSE "absent"

\* success = fluidsynth_midi_to_wav(midi_path, audio_path, str(soundfont))
\* if not success: raise Exception("FluidSynth synthesis failed")
\* (dir: the state of SOUNDFONT_DIR when fluidsynth is started with the path
\* that Locate found; nothing looks at the directory again before the call)
RunFluidsynth(r) ==
    /\ loop = r
    /\ pc[r] = "fluidsynth"
    /\ \E run \in FluidsynthRuns, dir \in BankStates :
          LET files == AfterRun(fs, loc[r].audio_path, AudioSuffix(req[r].format), run)
              h == [hist[r] EXCEPT !.fluidsynth = @ + 1, !.proc2 = ProcTag(run),
                                   !.wav2 = FileState(files, loc[r].audio_path),
                                   !.stderr2 = StreamRead(run, run.stderr),
                                   !.bank_used = BankAtUse(dir)]
          IN  /\ fs' = files
              /\ IF ~fluidsynth_midi_to_wav(run, files, loc[r].audio_path)
                 THEN Catch(r, FluidSynthFailedDetail, h)
                 ELSE /\ hist' = [hist EXCEPT ![r] = h]
                      /\ Goto(r, "rm_mid")
                      /\ UNCHANGED <<loop, req, loc, sending, last, timeoutDetail>>
    /\ UNCHANGED faults

\* if <path> and os.path.exists(<path>): the guard of every os.unlink
ShouldUnlink(files, p) == p # None /\ Exists(files, p)

\* lines 159-160: if midi_path and os.path.exists(midi_path): os.unlink(midi_path)
UnlinkMidi(r) ==
    /\ loop = r
    /\ pc[r] = "rm_mid"
    /\ \E unlink \in FsOutcomes :
          /\ faults' = FaultsAfter(<<unlink>>)
          /\ IF ~ShouldUnlink(fs, loc[r].midi_path)
             THEN /\ unlink = "ok"
                  /\ Goto(r, "rm_abc")
                  /\ UNCHANGED <<fs, loop, req, loc, hist, sending, last, timeoutDetail>>
             ELSE IF unlink = "fails"
             THEN /\ Catch(r, UnlinkErrorDetail,
                            [hist[r] EXCEPT !.unlink_failed = loc[r].midi_path])
                  /\ fs' = fs
             ELSE /\ fs' = Without(fs, loc[r].midi_path)
                  /\ Goto(r, "rm_abc")
                  /\ UNCHANGED <<loop, req, loc, hist, sending, last, timeoutDetail>>

\* lines 161-162: if ... abc_path and os.path.exists(abc_path): os.unlink(abc_path)
UnlinkAbc(r) ==
    /\ loop = r
    /\ pc[r] = "rm_abc"
    /\ \E unlink \in FsOutcomes :
          /\ faults' = FaultsAfter(<<unlink>>)
          /\ IF ~ShouldUnlink(fs, loc[r].abc_path)
             THEN /\ unlink = "ok"
                  /\ Goto(r, "respond")
                  /\ UNCHANGED <<fs, loop, req, loc, hist, sending, last, timeoutDetail>>
             ELSE IF unlink = "fails"
             THEN /\ Catch(r, UnlinkErrorDetail,
                            [hist[r] EXCEPT !.unlink_failed = loc[r].abc_path])
                  /\ fs' = fs
             ELSE /\ fs' = Without(fs, loc[r].abc_path)
                  /\ Goto(r, "respond")
                  /\ UNCHANGED <<loop, req, loc, hist, sending, last, timeoutDetail>>

\* lines 165-171: log os.path.getsize(audio_path), return FileResponse(...)
Respond(r) ==
    /\ loop = r
    /\ pc[r] = "respond"
    /\ IF ~Exists(fs, loc[r].audio_path)
       THEN Catch(r, GetsizeErrorDetail, hist[r])
       ELSE Return(r, FileResponse(loc[r].audio_path,
                                   ResponseMediaType(req[r].format)), hist[r])
    /\ UNCHANGED <<faults, fs>>

----------------------------------------------------------------------------
(* synthesize, lines 173-182: the except handler *)

\* one guarded os.unlink of the handler; an unlink that raises leaves the
\* handler, and synthesize, with that exception
CleanStep(r, here, path, next) ==
    /\ loop = r
    /\ pc[r] = here
    /\ \E unlink \in FsOutcomes :
          /\ faults' = FaultsAfter(<<unlink>>)
          /\ IF ~ShouldUnlink(fs, path)
             THEN /\ unlink = "ok"
                  /\ Goto(r, next)
                  /\ UNCHANGED <<fs, loop, req, loc, hist, sending, last, timeoutDetail>>
             ELSE IF unlink = "fails"
             THEN /\ Return(r, Unhandled(UnlinkErrorDetail),
                             [hist[r] EXCEPT !.unlink_failed = path])
                  /\ fs' = fs
             ELSE /\ fs' = Without(fs, path)
                  /\ Goto(r, next)
                  /\ UNCHANGED <<loop, req, loc, hist, sending, last, timeoutDetail>>

\* lines 176-177
CleanAbc(r) == CleanStep(r, "clean_abc", loc[r].abc_path, "clean_mid")
\* faulty variant: the handler forgets the MIDI file
CleanMidi_Skipped(r) ==
    /\ loop = r
    /\ pc[r] = "clean_mid"
    /\ Goto(r, "clean_wav")
    /\ UNCHANGED <<faults, fs, loop, req, loc, hist, sending, last, timeoutDetail>>

\* lines 178-179
CleanMidi(r) == CleanStep(r, "clean_mid", loc[r].midi_path, "clean_wav")
\* faulty variant: the handler forgets the audio file
CleanAudio_Skipped(r) ==
    /\ loop = r
    /\ pc[r] = "clean_wav"
    /\ Goto(r, "raise")
    /\ UNCHANGED <<faults, fs, loop, req, loc, hist, sending, last, timeoutDetail>>

\* lines 180-181
CleanAudio(r) == CleanStep(r, "clean_wav", loc[r].audio_path, "raise")

\* line 182: raise HTTPException(status_code=500, detail=str(e))
RaiseHTTP(r) ==
    /\ loop = r
    /\ pc[r] = "raise"
    /\ Return(r, HTTPError(500, loc[r].e), hist[r])
    /\ UNCHANGED <<faults, fs>>

----------------------------------------------------------------------------
(* Outside the handler *)

\* the framework sends the file a FileResponse refers to, on the same event
\* loop and therefore while no handler is running; nothing in synthesize asks
\* it to remove the file afterwards
SendResponse(r) ==
    /\ loop = 0
    /\ pc[r] = "responding"
    /\ Goto(r, "idle")
    /\ sending' = [sending EXCEPT ![r] = None]
    /\ UNCHANGED <<faults, fs, loop, req, loc, hist, last, timeoutDetail>>

Next ==
    \E r \in Reqs :
          \/ Start(r)
          \/ Locate(r)
          \/ CheckInput(r)
          \/ CreateAbc(r)
          \/ CreateMidi(r)
          \/ CreateAudio(r)
          \/ RunAbc2midi(r)
          \/ RunFluidsynth(r)
          \/ UnlinkMidi(r)
          \/ UnlinkAbc(r)
          \/ Respond(r)
          \/ CleanAbc(r)
          \/ CleanMidi(r)
          \/ CleanAudio(r)
          \/ RaiseHTTP(r)
          \/ SendResponse(r)

Spec == Init /\ [][Next]_vars
SpecNoFault == InitNoFault /\ [][Next]_vars

\* the steps of the handler of r, from its first statement to its outcome
HandlerStep(r) ==
    \/ Locate(r) \/ CheckInput(r)
    \/ CreateAbc(r) \/ CreateMidi(r) \/ CreateAudio(r)
    \/ RunAbc2midi(r) \/ RunFluidsynth(r)
    \/ UnlinkMidi(r) \/ UnlinkAbc(r) \/ Respond(r)
    \/ CleanAbc(r) \/ CleanMidi(r) \/ CleanAudio(r) \/ RaiseHTTP(r)

\* A handler that has started runs on: its code is synchronous, and each
\* subprocess.run returns, the tool having exited or been killed at the
\* timeout.  A response that is ready is sent once the event loop is free.
\* Nothing obliges a new request to arrive.
Fairness ==
    \A r \in Reqs : WF_vars(HandlerStep(r)) /\ WF_vars(SendResponse(r))

SpecFair == InitNoFault /\ [][Next]_vars /\ Fairness

----------------------------------------------------------------------------
(* What a caller has just been told *)

Reported == last.out.kind # "none"
Succeeded == last.out.kind = "response"
Failed == last.out.kind \in {"http", "exception"}
NonEmptyInput == Strip(last.req.abc) # <<>>
\* the temp files of the invocation just reported that are still on storage
Leftover == last.hist.created \cap DOMAIN fs
\* the request handlers that are running
Running == {r \in Reqs : pc[r] \notin {"idle", "responding"}}

TypeOK ==
    /\ faults \in 0..MaxFaults
    /\ DOMAIN fs \subseteq Paths
    /\ loop \in Reqs \cup {0}
    /\ \A r \in Reqs : (loop = r) <=> (r \in Running)
    /\ \A r \in Reqs : sending[r] # None <=> pc[r] = "responding"

----------------------------------------------------------------------------
(* Claims *)

\* C1: whatever the outcome of an invocation, none of the temp files it
\* created is still on storage when the outcome is reported, except the one
\* audio file handed to the response on success.
C1_NoLeak ==
    Reported => Leftover \subseteq (IF Succeeded THEN {last.out.path} ELSE {})

\* C2: a request whose text is empty or whitespace-only is answered with
\* HTTP 400, whatever the state of the sound-bank directory, without any
\* external process and without any temp file.
C2_EmptyRejected ==
    (Reported /\ ~NonEmptyInput) =>
        /\ last.out = HTTPError(400, EmptyAbcDetail)
        /\ last.hist.abc2midi = 0 /\ last.hist.fluidsynth = 0
        /\ last.hist.created = {}

\* C3: with valid input and no .sf2 file to be found (no file, or no
\* directory), the outcome is the HTTP 500 configuration failure and neither
\* tool is ever invoked for that request.
C3_NoBankNoTools ==
    /\ (Reported /\ NonEmptyInput /\ last.hist.bank_seen \in {"nodir", "nosf2"}) =>
          /\ last.out = HTTPError(500, NoSoundFontDetail)
          /\ last.hist.abc2midi = 0 /\ last.hist.fluidsynth = 0
    /\ \A r \in Running :
          hist[r].abc2midi + hist[r].fluidsynth > 0 => hist[r].bank_seen = "sf2"

C3_Witness ==
    /\ Reported /\ NonEmptyInput /\ last.hist.bank_seen = "nosf2"
    /\ last.out.status = 500

\* C4: when abc2midi exits non-zero, fluidsynth is never invoked for that
\* request and the three temp files created (.abc, .mid, .wav) are gone from
\* storage when the failure is reported.
C4_Stage1FailureCleansUp ==
    /\ \A r \in Running : hist[r].proc1 = "exitN" => hist[r].fluidsynth = 0
    /\ (Reported /\ last.hist.proc1 = "exitN") =>
          /\ Failed
          /\ last.hist.fluidsynth = 0
          /\ Cardinality(last.hist.created) = 3
          /\ Leftover = {}

C4_Witness ==
    /\ Reported /\ last.hist.proc1 = "exitN" /\ last.hist.midi1 = "data"
    /\ last.out.status = 500

\* the media type and the file extension the interface promises for a format
RequestedMediaType(format) == IF format = "mp3" THEN "audio/mpeg" ELSE "audio/wav"
RequestedSuffix(format) == "." \o format

\* C5: on success the media type of the response matches the requested
\* format (wav: audio/wav, mp3: audio/mpeg) and the audio temp file carries
\* the extension of the requested format.
C5_MediaTypeMatches ==
    Succeeded =>
        /\ last.out.media_type = RequestedMediaType(last.req.format)
        /\ Exists(fs, last.out.path) =>
              fs[last.out.path].suffix = RequestedSuffix(last.req.format)

\* both tools did their job: exit status zero and a non-empty output file
BothStagesGood(h) ==
    /\ h.bank_seen = "sf2"
    /\ h.proc1 = "exit0" /\ h.midi1 = "data"
    /\ h.proc2 = "exit0" /\ h.wav2 = "data"

\* C6: non-empty input, a sound bank present, abc2midi exiting zero with a
\* non-empty MIDI file and fluidsynth exiting zero with a non-empty audio
\* file give Success (HTTP 200) referring to a non-empty audio file that is
\* on storage when the response is returned.
C6_GoodRunSucceeds ==
    (Reported /\ NonEmptyInput /\ BothStagesGood(last.hist)) =>
        /\ Succeeded /\ last.out.status = 200
        /\ Exists(fs, last.out.path)
        /\ GetSize(fs, last.out.path) > 0

C6_Witness ==
    /\ Reported /\ NonEmptyInput /\ BothStagesGood(last.hist)
    /\ Succeeded

\* C7: the detail reported when fluidsynth times out is never the detail
\* reported when fluidsynth exits with a non-zero status.
C7_TimeoutDetailDistinct ==
    (Reported /\ last.out.kind = "http" /\ last.hist.proc2 = "exitN"
        /\ timeoutDetail # "") =>
        last.out.detail # timeoutDetail

\* C8: Success is returned only after both tools were invoked, both exited
\* with status zero and the audio file exists and is non-empty; a fluidsynth
\* run that exits zero but leaves no audio data yields a failure.
C8_NoPartialSuccess ==
    /\ Succeeded =>
          /\ last.hist.abc2midi = 1 /\ last.hist.proc1 = "exit0"
          /\ last.hist.fluidsynth = 1 /\ last.hist.proc2 = "exit0"
          /\ last.hist.wav2 = "data"
          /\ Exists(fs, last.out.path) /\ GetSize(fs, last.out.path) > 0
    /\ (Reported /\ last.hist.proc2 = "exit0"
           /\ last.hist.wav2 \in {"missing", "empty"}) => Failed

C8_Witness ==
    /\ Reported /\ last.hist.proc2 = "exit0" /\ last.hist.wav2 = "empty"
    /\ Failed

\* C9: when abc2midi exits zero but its MIDI file is missing or zero-byte,
\* the stage counts as failed: the request fails and fluidsynth is not
\* invoked.
C9_EmptyMidiIsFailure ==
    /\ \A r \in Running :
          (hist[r].proc1 = "exit0" /\ hist[r].midi1 \in {"missing", "empty"}) =>
              hist[r].fluidsynth = 0
    /\ (Reported /\ last.hist.proc1 = "exit0"
           /\ last.hist.midi1 \in {"missing", "empty"}) =>
          Failed /\ last.hist.fluidsynth = 0

\* C10: within one request each tool is invoked at most once, nothing runs
\* after a failed stage, and exactly one outcome is reported.
C10_NoRetryOneOutcome ==
    /\ \A r \in Running :
          /\ hist[r].abc2midi <= 1 /\ hist[r].fluidsynth <= 1
          /\ hist[r].proc1 \in {"exitN", "timeout", "oserror"} =>
                hist[r].fluidsynth = 0
          /\ hist[r].reports = 0
    /\ Reported =>
          /\ last.hist.abc2midi <= 1 /\ last.hist.fluidsynth <= 1
          /\ last.hist.proc1 \in {"exitN", "timeout", "oserror"} =>
                Failed /\ last.hist.fluidsynth = 0
          /\ last.hist.proc2 \in {"exitN", "timeout", "oserror"} => Failed
          /\ last.hist.reports = 1
          /\ pc[last.r] \in {"idle", "responding"}

C10_Witness ==
    /\ Reported /\ Failed
    /\ last.hist.abc2midi = 1 /\ last.hist.fluidsynth = 1
    /\ last.hist.proc2 = "timeout"

\* the text a stage captured from its tool: stderr, or stdout when that is empty
Diagnostic(stderr, stdout) == IF stderr # "" THEN stderr ELSE stdout
\* the fixed texts a detail can put in front of a tool's diagnostic
DetailPrefixes == {"", "abc2midi failed: ", "FluidSynth synthesis failed: "}
\* the detail carries the text: it is the text, possibly after a fixed prefix
Carries(detail, text) == \E prefix \in DetailPrefixes : detail = prefix \o text

\* C11: a failed conversion stage is reported as HTTP 500 whose detail carries
\* the text captured from that stage's tool: abc2midi's output after a failed
\* abc2midi, fluidsynth's stderr, when it wrote any, after a failed
\* fluidsynth.
C11_FailureCarriesDiagnostic ==
    /\ (Reported /\ last.hist.proc1 = "exitN"
           /\ Diagnostic(last.hist.stderr1, last.hist.stdout1) # "") =>
          /\ last.out.kind = "http" /\ last.out.status = 500
          /\ Carries(last.out.detail,
                     Diagnostic(last.hist.stderr1, last.hist.stdout1))
    /\ (Reported /\ last.hist.proc2 = "exitN" /\ last.hist.stderr2 # "") =>
          /\ last.out.kind = "http" /\ last.out.status = 500
          /\ Carries(last.out.detail, last.hist.stderr2)

\* C12: an os.unlink that fails is not surfaced.  The outcome is the one the
\* same run gets when every deletion succeeds (good stages: Success; a failed
\* stage: HTTP 500 with that stage's detail), and the other temp files are
\* still removed.
C12_UnlinkFailureNotSurfaced ==
    (Reported /\ last.hist.unlink_failed # None) =>
        /\ last.out.kind # "exception"
        /\ last.out.detail # UnlinkErrorDetail
        /\ BothStagesGood(last.hist) => Succeeded
        /\ last.hist.proc1 = "exitN" =>
              last.out = HTTPError(500, "abc2midi failed: "
                            \o Diagnostic(last.hist.stderr1, last.hist.stdout1))
        /\ last.hist.proc2 \in {"exitN", "timeout", "oserror"} =>
              last.out = HTTPError(500, FluidSynthFailedDetail)
        /\ Leftover \subseteq
              {last.hist.unlink_failed} \cup
                 (IF Succeeded THEN {last.out.path} ELSE {})

\* C13: once the sound-bank and input checks have passed, no exception leaves
\* synthesize as it was raised: whatever goes wrong afterwards (creating a temp
\* file, starting a tool, a tool timing out) is reported as an HTTPException
\* with status 500 raised by synthesize itself.
C13_NoUnclassifiedException ==
    (Reported /\ NonEmptyInput /\ last.hist.bank_seen = "sf2") =>
        \/ Succeeded
        \/ last.out.kind = "http" /\ last.out.status = 500

\* the temp files an invocation holds: the paths in its handler's locals and
\* the audio file its response is sending
Held(r) ==
    {loc[r].abc_path, loc[r].midi_path, loc[r].audio_path, sending[r]} \ {None}
\* the step creates, rewrites or removes the file p
Touched(p) ==
    \/ Exists(fs, p) # Exists(fs', p)
    \/ Exists(fs, p) /\ Exists(fs', p) /\ fs[p] # fs'[p]

\* C14: invocations that overlap hold pairwise disjoint sets of temp files; a
\* step touches only files of the invocation that takes it, never a file
\* another invocation holds, and leaves the other invocations' request,
\* locals and history as they are; the audio file of a response that is still
\* to be sent stays on storage with its data.
C14_OwnFilesOnly ==
    [][ LET actor == IF loop # 0 THEN loop ELSE loop'
        IN  /\ \A r1, r2 \in Reqs : r1 < r2 => Held(r1)' \cap Held(r2)' = {}
            /\ \A r \in Reqs : sending'[r] # None =>
                  Exists(fs', sending'[r]) /\ GetSize(fs', sending'[r]) > 0
            /\ fs' # fs =>
                  \A p \in Paths : Touched(p) =>
                      /\ loop # 0
                      /\ p \in hist[loop].created \cup hist'[loop].created
                                 \cup last'.hist.created
                      /\ \A r2 \in Reqs \ {loop} : p \notin Held(r2)
            /\ actor # 0 =>
                  \A r2 \in Reqs \ {actor} :
                      /\ req'[r2] = req[r2] /\ loc'[r2] = loc[r2]
                      /\ hist'[r2] = hist[r2]
                      /\ sending'[r2] = sending[r2] ]_vars

\* one invocation's response is still to be sent while another invocation
\* holds its three temp files
C14_Witness ==
    \E r1, r2 \in Reqs :
        /\ r1 # r2
        /\ sending[r1] # None
        /\ Cardinality(Held(r2)) = 3

\* C15: whenever fluidsynth is started with the sound-bank path, a .sf2 file
\* is in the sound-bank directory at that moment, whatever happened to the
\* directory since the lookup at the start of the request.
C15_BankPresentAtUse ==
    /\ \A r \in Running :
          hist[r].fluidsynth > 0 => hist[r].bank_used = "present"
    /\ (Reported /\ last.hist.fluidsynth > 0) => last.hist.bank_used = "present"

\* C16: after abc2midi exits with a non-zero status the reported detail is
\* built from its stderr text when that is non-empty and from its stdout text
\* otherwise; stdout is not used when stderr has text.
C16_StderrPreferred ==
    (Reported /\ last.hist.proc1 = "exitN") =>
        /\ last.out.kind = "http" /\ last.out.status = 500
        /\ last.hist.stderr1 # "" =>
              last.out.detail = "abc2midi failed: " \o last.hist.stderr1
        /\ last.hist.stderr1 = "" =>
              last.out.detail = "abc2midi failed: " \o last.hist.stdout1

C16_Witness ==
    /\ Reported /\ last.hist.proc1 = "exitN"
    /\ last.hist.stderr1 # "" /\ last.hist.stdout1 # ""
    /\ last.out.detail = "abc2midi failed: " \o last.hist.stderr1

\* C17: when abc2midi is cut off by its 10 s timeout the request ends with
\* HTTP 500 whose detail is that of the abc2midi timeout, fluidsynth is never
\* invoked for the request, and the three temp files are gone from storage
\* when the failure is reported.
C17_Stage1TimeoutFails ==
    /\ \A r \in Running : hist[r].proc1 = "timeout" => hist[r].fluidsynth = 0
    /\ (Reported /\ last.hist.proc1 = "timeout") =>
          /\ last.out = HTTPError(500, Abc2midiTimeoutDetail)
          /\ last.hist.fluidsynth = 0
          /\ Cardinality(last.hist.created) = 3
          /\ Leftover = {}

C17_Witness ==
    /\ Reported /\ last.hist.proc1 = "timeout" /\ last.hist.midi1 = "data"
    /\ last.out.kind = "http"
    /\ last.hist.created \cap DOMAIN fs = {}

\* the audio file p has been handed to a response
HandedOver(p) == \E r \in Reqs : sending[r] = p

\* C18: the audio file handed to a successful response is eventually removed
\* from storage, so that the audio files of past requests do not pile up.
C18_AudioEventuallyRemoved ==
    \A p \in Paths : HandedOver(p) ~> ~Exists(fs, p)

\* C19: every invocation that has started reaches its outcome, and exactly
\* one: its handler leaves the event loop having reported Success (200), 400
\* or 500 once, and does not stay in a stage.
C19_ReachesOutcome ==
    \A r \in Reqs :
        (loop = r) ~>
            /\ loop = 0
            /\ last.r = r
            /\ last.out.status \in {200, 400, 500}
            /\ last.hist.reports = 1
            /\ pc[r] \in {"idle", "responding"}

\* a request whose fluidsynth was cut off by the timeout has got its outcome
C19_Witness ==
    /\ Reported /\ loop = 0
    /\ last.hist.proc1 = "exit0" /\ last.hist.proc2 = "timeout"
    /\ last.out.status = 500
    /\ pc[last.r] = "idle"

\* the invocations that are at a call of an external tool
AtTool == {r \in Reqs : pc[r] \in {"abc2midi", "fluidsynth"}}

\* C20: the steps of two invocations never interleave.  At most one handler is
\* between its start and its outcome; while it is, and in particular while it
\* is at abc2midi or fluidsynth, no other invocation starts or advances; at
\* most one invocation is at a tool at any time.
C20_HandlersNeverInterleave ==
    [][ /\ Cardinality(Running') <= 1
        /\ Cardinality(AtTool') <= 1
        /\ \A r \in Running : \A r2 \in Reqs \ {r} :
              pc'[r2] = pc[r2] /\ hist'[r2] = hist[r2] ]_vars

\* one invocation is at fluidsynth while the response of an earlier one is
\* still waiting to be sent
C20_Witness ==
    \E r1, r2 \in Reqs :
        /\ pc[r1] = "fluidsynth" /\ hist[r1].proc1 = "exit0"
        /\ pc[r2] = "responding"

====
